---- MODULE Spec2Model ----
(***************************************************************************)
(* Model of Perun::FifoQueue<T> (src/fifo_queue.hpp): a bounded FIFO queue  *)
(* guarded by one mutex (_lock) and two condition variables                 *)
(* (_c_pop_blocking_on for consumers, _c_push_blockin_on for producers).    *)
(*                                                                         *)
(* Every critical section of the source runs with _lock held, so each one   *)
(* is one atomic action here.  A condition wait releases the mutex and      *)
(* parks the thread (pc = "..._wait"); a notification or a spurious wakeup  *)
(* unparks it (pc = "..._woken") and a later action re-acquires the mutex   *)
(* and continues after the wait call.  The notify_one/notify_all calls the  *)
(* source makes after leaving the locked block are separate actions.        *)
(***************************************************************************)
EXTENDS Integers, Sequences, FiniteSets, TLC

\* ---- bounds of the model ------------------------------------------------
NThreads == 3
MaxCap == 2
MaxVal == 3
MaxTimeout == 1
MaxCalls == 4

Threads == 1..NThreads
Values == 1..MaxVal
Capacities == 1..MaxCap
Timeouts == 0..MaxTimeout
NoVal == 0

\* predicates handed to get / erase_if, each given by the set of values it accepts
Preds == {{v} : v \in Values} \cup {{v \in Values : v % 2 = 1}} \cup {Values}

VARIABLES
  max_size,   \* const int64_t max_size
  storage,    \* std::deque<T> _storage (head first)
  is_valid,   \* volatile bool _is_valid
  pc,         \* per thread: where it is inside its current operation
  arg,        \* per thread: the value a push in progress wants to append
  remaining,  \* per thread: time left until the deadline of its pop(timeout),
              \* that is deadline - steady_clock::now(), 0 once it is reached
  out,        \* per thread: the value moved out of storage, not yet returned
  last,       \* the return made by the latest step, if it made one:
              \* operation, FifoError, out-parameter and, for get and
              \* erase_if, the predicate that was passed
  nextVal,    \* next fresh value a producer will offer
  calls,      \* number of operations started so far
  pushed,     \* history: values in the order they were appended
  delivered,  \* history: values in the order pop / try_pop / pop(timeout) removed them
  got,        \* history: values removed by get
  erased      \* history: values removed by erase_if

vars == <<max_size, storage, is_valid, pc, arg, remaining, out, last,
          nextVal, calls, pushed, delivered, got, erased>>

envVars == <<nextVal, calls>>

queueVars == <<max_size, storage, is_valid>>
histVars == <<pushed, delivered, got, erased>>

\* ---- helpers ------------------------------------------------------------
Range(s) == {s[i] : i \in 1..Len(s)}

\* threads parked on _c_push_blockin_on
WaitersNotFull == {t \in Threads : pc[t] = "push_wait"}
\* threads parked on _c_pop_blocking_on
WaitersNotEmpty == {t \in Threads : pc[t] \in {"pop_wait", "popt_wait"}}

WokenState(s) ==
  CASE s = "push_wait" -> "push_woken"
    [] s = "pop_wait" -> "pop_woken"
    [] s = "popt_wait" -> "popt_woken"
    [] OTHER -> s

\* std::condition_variable::notify_one: unpark one waiter if there is one
NotifyOne(p, waiters) ==
  IF waiters = {} THEN {p}
  ELSE {[p EXCEPT ![w] = WokenState(p[w])] : w \in waiters}

\* a broadcast that reaches only one of the waiters
M_NotifyAll(p, waiters) ==
  IF waiters = {} THEN p
  ELSE LET w == CHOOSE x \in waiters : \A y \in waiters : x <= y
       IN [p EXCEPT ![w] = WokenState(p[w])]

\* std::condition_variable::notify_all: unpark every waiter
NotifyAll(p, waiters) ==
  [u \in Threads |-> IF u \in waiters THEN WokenState(p[u]) ELSE p[u]]

\* an erase that stops after the first element it removes
RECURSIVE M_EraseIf(_, _)
M_EraseIf(s, P) ==
  IF s = <<>> THEN <<>>
  ELSE IF Head(s) \in P THEN Tail(s)
       ELSE <<Head(s)>> \o M_EraseIf(Tail(s), P)

\* std::erase_if(_storage, f): the survivors in their order
RECURSIVE EraseIf(_, _)
EraseIf(s, P) ==
  IF s = <<>> THEN <<>>
  ELSE IF Head(s) \in P THEN EraseIf(Tail(s), P)
       ELSE <<Head(s)>> \o EraseIf(Tail(s), P)

\* a scan that keeps going and ends on the last element accepted by P
M_FirstMatch(s, P, i) ==
  LET M == {j \in i..Len(s) : s[j] \in P}
  IN IF M = {} THEN 0 ELSE CHOOSE j \in M : \A k \in M : k <= j

\* index of the first element accepted by P, 0 if none (the loop of get)
RECURSIVE FirstMatch(_, _, _)
FirstMatch(s, P, i) ==
  IF i > Len(s) THEN 0
  ELSE IF s[i] \in P THEN i
       ELSE FirstMatch(s, P, i + 1)

\* an erase that leaves the element in place
M_RemoveAt(s, i) == s

\* _storage.erase(it)
RemoveAt(s, i) == SubSeq(s, 1, i - 1) \o SubSeq(s, i + 1, Len(s))

\* _storage.size() >= max_size: size() is unsigned, so the signed max_size is
\* converted to unsigned and a negative max_size compares as a huge capacity
IsFull(s, cap) == IF cap < 0 THEN FALSE ELSE Len(s) >= cap

NoReturn == [op |-> "none", ret |-> "None", out |-> NoVal, pred |-> {}]

\* the thread leaves operation o, called with predicate P, with status r and
\* out-parameter v
ReturnWith(t, o, r, v, P, p) ==
  /\ pc' = [p EXCEPT ![t] = "idle"]
  /\ last' = [op |-> o, ret |-> r, out |-> v, pred |-> P]
  /\ out' = [out EXCEPT ![t] = NoVal]
  /\ arg' = [arg EXCEPT ![t] = NoVal]
  /\ remaining' = [remaining EXCEPT ![t] = 0]

\* the thread leaves its operation with status r and out-parameter v
Return(t, o, r, v, p) == ReturnWith(t, o, r, v, {}, p)

\* the thread stays inside its operation at position s
Goto(t, s) ==
  /\ pc' = [pc EXCEPT ![t] = s]
  /\ last' = NoReturn
  /\ UNCHANGED out

\* a thread outside any operation starts one
Start(t) ==
  /\ pc[t] = "idle"
  /\ calls < MaxCalls
  /\ calls' = calls + 1

\* the state after FifoQueue(max_size) with max_size taken from C
InitWith(C) ==
  /\ max_size \in C
  /\ storage = <<>>
  /\ is_valid = TRUE
  /\ pc = [t \in Threads |-> "idle"]
  /\ arg = [t \in Threads |-> NoVal]
  /\ remaining = [t \in Threads |-> 0]
  /\ out = [t \in Threads |-> NoVal]
  /\ last = NoReturn
  /\ nextVal = 1
  /\ calls = 0
  /\ pushed = <<>>
  /\ delivered = <<>>
  /\ got = {}
  /\ erased = {}

\* the queues the other parts of the development are about: capacity >= 1
Init == InitWith(Capacities)

\* every argument the constructor accepts: max_size is an int64_t that is
\* stored as given, zero and negative values included
CtorArgs == -1..MaxCap

InitAny == InitWith(CtorArgs)

\* ---- try_push -----------------------------------------------------------
\* a try_push that signals a consumer although it appended nothing
M_try_push(t) ==
  /\ Start(t)
  /\ nextVal <= MaxVal
  /\ nextVal' = nextVal + 1
  /\ IF ~is_valid THEN
       /\ Return(t, "try_push", "Destroyed", NoVal, pc)
       /\ UNCHANGED <<storage, pushed>>
     ELSE IF IsFull(storage, max_size) THEN
       /\ \E p \in NotifyOne(pc, WaitersNotEmpty) :
            Return(t, "try_push", "Full", NoVal, p)
       /\ UNCHANGED <<storage, pushed>>
     ELSE
       /\ storage' = Append(storage, nextVal)
       /\ pushed' = Append(pushed, nextVal)
       /\ Goto(t, "try_push_notify")
       /\ UNCHANGED <<arg, remaining>>
  /\ UNCHANGED <<max_size, is_valid, delivered, got, erased>>

try_push(t) ==
  /\ Start(t)
  /\ nextVal <= MaxVal
  /\ nextVal' = nextVal + 1
  /\ IF ~is_valid THEN
       /\ Return(t, "try_push", "Destroyed", NoVal, pc)
       /\ UNCHANGED <<storage, pushed>>
     ELSE IF IsFull(storage, max_size) THEN
       /\ Return(t, "try_push", "Full", NoVal, pc)
       /\ UNCHANGED <<storage, pushed>>
     ELSE
       /\ storage' = Append(storage, nextVal)
       /\ pushed' = Append(pushed, nextVal)
       /\ Goto(t, "try_push_notify")
       /\ UNCHANGED <<arg, remaining>>
  /\ UNCHANGED <<max_size, is_valid, delivered, got, erased>>

try_push_notify(t) ==
  /\ pc[t] = "try_push_notify"
  /\ \E p \in NotifyOne(pc, WaitersNotEmpty) : Return(t, "try_push", "OK", NoVal, p)
  /\ UNCHANGED <<queueVars, histVars, envVars>>

\* ---- push ---------------------------------------------------------------
\* the while loop of push and the append after it, entered with the mutex
\* held and _is_valid true
PushLoop(t, v) ==
  IF IsFull(storage, max_size) THEN
    /\ Goto(t, "push_wait")
    /\ arg' = [arg EXCEPT ![t] = v]
    /\ UNCHANGED <<storage, pushed, remaining>>
  ELSE
    /\ storage' = Append(storage, v)
    /\ pushed' = Append(pushed, v)
    /\ Goto(t, "push_notify")
    /\ arg' = [arg EXCEPT ![t] = NoVal]
    /\ UNCHANGED remaining

push(t) ==
  /\ Start(t)
  /\ nextVal <= MaxVal
  /\ nextVal' = nextVal + 1
  /\ IF ~is_valid THEN
       /\ Return(t, "push", "Destroyed", NoVal, pc)
       /\ UNCHANGED <<storage, pushed>>
     ELSE PushLoop(t, nextVal)
  /\ UNCHANGED <<max_size, is_valid, delivered, got, erased>>

\* a push that waits under "if" instead of "while": once woken it appends
\* without testing the capacity again
M_push_woken_if(t) ==
  /\ pc[t] = "push_woken"
  /\ IF ~is_valid THEN
       /\ Return(t, "push", "Destroyed", NoVal, pc)
       /\ UNCHANGED <<storage, pushed>>
     ELSE
       /\ storage' = Append(storage, arg[t])
       /\ pushed' = Append(pushed, arg[t])
       /\ Goto(t, "push_notify")
       /\ arg' = [arg EXCEPT ![t] = NoVal]
       /\ UNCHANGED remaining
  /\ UNCHANGED <<max_size, is_valid, envVars, delivered, got, erased>>

\* a woken push that does not look at _is_valid again
M_push_woken(t) ==
  /\ pc[t] = "push_woken"
  /\ PushLoop(t, arg[t])
  /\ UNCHANGED <<max_size, is_valid, envVars, delivered, got, erased>>

\* _c_push_blockin_on.wait returns: the mutex is re-acquired
push_woken(t) ==
  /\ pc[t] = "push_woken"
  /\ IF ~is_valid THEN
       /\ Return(t, "push", "Destroyed", NoVal, pc)
       /\ UNCHANGED <<storage, pushed>>
     ELSE PushLoop(t, arg[t])
  /\ UNCHANGED <<max_size, is_valid, envVars, delivered, got, erased>>

\* a push that returns without signalling a consumer
M_push_notify(t) ==
  /\ pc[t] = "push_notify"
  /\ Return(t, "push", "OK", NoVal, pc)
  /\ UNCHANGED <<queueVars, histVars, envVars>>

push_notify(t) ==
  /\ pc[t] = "push_notify"
  /\ \E p \in NotifyOne(pc, WaitersNotEmpty) : Return(t, "push", "OK", NoVal, p)
  /\ UNCHANGED <<queueVars, histVars, envVars>>

\* ---- try_pop ------------------------------------------------------------
\* a consumer that takes the tail instead of the head
M_TakeHead(t, notifyState) ==
  /\ storage' = SubSeq(storage, 1, Len(storage) - 1)
  /\ delivered' = Append(delivered, storage[Len(storage)])
  /\ pc' = [pc EXCEPT ![t] = notifyState]
  /\ out' = [out EXCEPT ![t] = storage[Len(storage)]]
  /\ last' = NoReturn
  /\ UNCHANGED arg

\* value = std::move(_storage.front()); _storage.pop_front();
TakeHead(t, notifyState) ==
  /\ storage' = Tail(storage)
  /\ delivered' = Append(delivered, Head(storage))
  /\ pc' = [pc EXCEPT ![t] = notifyState]
  /\ out' = [out EXCEPT ![t] = Head(storage)]
  /\ last' = NoReturn
  /\ UNCHANGED arg

\* a try_pop that signals a producer although it removed nothing
M_try_pop(t) ==
  /\ Start(t)
  /\ IF ~is_valid THEN
       /\ Return(t, "try_pop", "Destroyed", NoVal, pc)
       /\ UNCHANGED <<storage, delivered>>
     ELSE IF storage = <<>> THEN
       /\ \E p \in NotifyOne(pc, WaitersNotFull) :
            Return(t, "try_pop", "Empty", NoVal, p)
       /\ UNCHANGED <<storage, delivered>>
     ELSE
       /\ TakeHead(t, "try_pop_notify")
       /\ UNCHANGED remaining
  /\ UNCHANGED <<max_size, is_valid, nextVal, pushed, got, erased>>

try_pop(t) ==
  /\ Start(t)
  /\ IF ~is_valid THEN
       /\ Return(t, "try_pop", "Destroyed", NoVal, pc)
       /\ UNCHANGED <<storage, delivered>>
     ELSE IF storage = <<>> THEN
       /\ Return(t, "try_pop", "Empty", NoVal, pc)
       /\ UNCHANGED <<storage, delivered>>
     ELSE
       /\ TakeHead(t, "try_pop_notify")
       /\ UNCHANGED remaining
  /\ UNCHANGED <<max_size, is_valid, nextVal, pushed, got, erased>>

try_pop_notify(t) ==
  /\ pc[t] = "try_pop_notify"
  /\ \E p \in NotifyOne(pc, WaitersNotFull) : Return(t, "try_pop", "OK", out[t], p)
  /\ UNCHANGED <<queueVars, histVars, envVars>>

\* ---- pop ----------------------------------------------------------------
\* a pop that tests _is_valid only while storage is empty (drains after close)
M_PopLoop(t, o, waitState, notifyState, d) ==
  IF storage = <<>> THEN
    IF ~is_valid THEN
      /\ Return(t, o, "Destroyed", NoVal, pc)
      /\ UNCHANGED <<storage, delivered>>
    ELSE
      /\ Goto(t, waitState)
      /\ remaining' = [remaining EXCEPT ![t] = d]
      /\ UNCHANGED <<storage, delivered, arg>>
  ELSE
    /\ TakeHead(t, notifyState)
    /\ remaining' = [remaining EXCEPT ![t] = 0]

\* the while loop of pop and the statements after it, with the mutex held;
\* waitState is where the thread parks when storage is empty and the queue
\* open, d the remaining it keeps while it stays inside the operation
PopLoop(t, o, waitState, notifyState, d) ==
  IF storage = <<>> THEN
    IF ~is_valid THEN
      /\ Return(t, o, "Destroyed", NoVal, pc)
      /\ UNCHANGED <<storage, delivered>>
    ELSE
      /\ Goto(t, waitState)
      /\ remaining' = [remaining EXCEPT ![t] = d]
      /\ UNCHANGED <<storage, delivered, arg>>
  ELSE IF ~is_valid THEN
    /\ Return(t, o, "Destroyed", NoVal, pc)
    /\ UNCHANGED <<storage, delivered>>
  ELSE
    /\ TakeHead(t, notifyState)
    /\ remaining' = [remaining EXCEPT ![t] = 0]

pop(t) ==
  /\ Start(t)
  /\ PopLoop(t, "pop", "pop_wait", "pop_notify", 0)
  /\ UNCHANGED <<max_size, is_valid, nextVal, pushed, got, erased>>

\* _c_pop_blocking_on.wait returns: the mutex is re-acquired
pop_woken(t) ==
  /\ pc[t] = "pop_woken"
  /\ PopLoop(t, "pop", "pop_wait", "pop_notify", 0)
  /\ UNCHANGED <<max_size, is_valid, envVars, pushed, got, erased>>

\* a pop that returns without notifying a producer
M_pop_notify(t) ==
  /\ pc[t] = "pop_notify"
  /\ Return(t, "pop", "OK", out[t], pc)
  /\ UNCHANGED <<queueVars, histVars, envVars>>

pop_notify(t) ==
  /\ pc[t] = "pop_notify"
  /\ \E p \in NotifyOne(pc, WaitersNotFull) : Return(t, "pop", "OK", out[t], p)
  /\ UNCHANGED <<queueVars, histVars, envVars>>

\* ---- pop(timeout) -------------------------------------------------------
pop_timeout(t) ==
  /\ Start(t)
  /\ \E timeout \in Timeouts :
       PopLoop(t, "pop_timeout", "popt_wait", "popt_notify", timeout)
  /\ UNCHANGED <<max_size, is_valid, nextVal, pushed, got, erased>>

\* a pop(timeout) that ignores the status of wait_until and takes a fresh
\* deadline every time it waits again
M_popt_woken(t) ==
  /\ pc[t] = "popt_woken"
  /\ PopLoop(t, "pop_timeout", "popt_wait", "popt_notify", MaxTimeout)
  /\ UNCHANGED <<max_size, is_valid, envVars, pushed, got, erased>>

\* _c_pop_blocking_on.wait_until returns: the mutex is re-acquired and the
\* status is timeout exactly when the remaining has been reached
popt_woken(t) ==
  /\ pc[t] = "popt_woken"
  /\ IF remaining[t] = 0 THEN
       /\ Return(t, "pop_timeout", "Timeouted", NoVal, pc)
       /\ UNCHANGED <<storage, delivered>>
     ELSE PopLoop(t, "pop_timeout", "popt_wait", "popt_notify", remaining[t])
  /\ UNCHANGED <<max_size, is_valid, envVars, pushed, got, erased>>

popt_notify(t) ==
  /\ pc[t] = "popt_notify"
  /\ \E p \in NotifyOne(pc, WaitersNotFull) : Return(t, "pop_timeout", "OK", out[t], p)
  /\ UNCHANGED <<queueVars, histVars, envVars>>

\* the remaining of a parked wait_until is reached
popt_timeout(t) ==
  /\ pc[t] = "popt_wait"
  /\ remaining[t] = 0
  /\ pc' = [pc EXCEPT ![t] = "popt_woken"]
  /\ UNCHANGED <<queueVars, histVars, arg, remaining, out, envVars>>
  /\ last' = NoReturn

\* ---- close --------------------------------------------------------------
\* a close that flips the flag instead of clearing it
M_close(t) ==
  /\ Start(t)
  /\ is_valid' = ~is_valid
  /\ Goto(t, "close_notify_pop")
  /\ UNCHANGED <<max_size, storage, histVars, arg, remaining, nextVal>>

close(t) ==
  /\ Start(t)
  /\ is_valid' = FALSE
  /\ Goto(t, "close_notify_pop")
  /\ UNCHANGED <<max_size, storage, histVars, arg, remaining, nextVal>>

close_notify_pop(t) ==
  /\ pc[t] = "close_notify_pop"
  /\ pc' = [NotifyAll(pc, WaitersNotEmpty) EXCEPT ![t] = "close_notify_push"]
  /\ UNCHANGED <<queueVars, histVars, arg, remaining, out, envVars>>
  /\ last' = NoReturn

close_notify_push(t) ==
  /\ pc[t] = "close_notify_push"
  /\ Return(t, "close", "Void", NoVal, NotifyAll(pc, WaitersNotFull))
  /\ UNCHANGED <<queueVars, histVars, envVars>>

\* ---- running / size -----------------------------------------------------
running(t) ==
  /\ Start(t)
  /\ Return(t, "running", IF is_valid THEN "True" ELSE "False", NoVal, pc)
  /\ UNCHANGED <<queueVars, histVars, nextVal>>

size(t) ==
  /\ Start(t)
  /\ Return(t, "size", "Size", Len(storage), pc)
  /\ UNCHANGED <<queueVars, histVars, nextVal>>

\* ---- erase_if / get -----------------------------------------------------
erase_if(t) ==
  /\ Start(t)
  /\ \E P \in Preds :
       /\ storage' = EraseIf(storage, P)
       /\ erased' = erased \cup (Range(storage) \cap P)
       /\ ReturnWith(t, "erase_if", "Void", NoVal, P, pc)
  /\ UNCHANGED <<max_size, is_valid, nextVal, pushed, delivered, got>>

get(t) ==
  /\ Start(t)
  /\ \E P \in Preds :
       IF ~is_valid THEN
         /\ ReturnWith(t, "get", "Destroyed", NoVal, P, pc)
         /\ UNCHANGED <<storage, got>>
       ELSE
         LET i == FirstMatch(storage, P, 1) IN
         IF i = 0 THEN
           /\ ReturnWith(t, "get", "NotFound", NoVal, P, pc)
           /\ UNCHANGED <<storage, got>>
         ELSE
           /\ storage' = RemoveAt(storage, i)
           /\ got' = got \cup {storage[i]}
           /\ ReturnWith(t, "get", "OK", storage[i], P, pc)
  /\ UNCHANGED <<max_size, is_valid, nextVal, pushed, delivered, erased>>

\* ---- environment --------------------------------------------------------
\* a condition wait may return without any notification
SpuriousWakeup(t) ==
  /\ pc[t] \in {"push_wait", "pop_wait", "popt_wait"}
  /\ pc' = [pc EXCEPT ![t] = WokenState(pc[t])]
  /\ UNCHANGED <<queueVars, histVars, arg, remaining, out, envVars>>
  /\ last' = NoReturn

\* the steady clock advances: every pending deadline comes one unit closer
\* (the clock is read by wait_until only, so it is modelled while a
\* pop(timeout) is inside its wait with its deadline ahead)
Timed == {t \in Threads : pc[t] \in {"popt_wait", "popt_woken"} /\ remaining[t] > 0}

Tick ==
  /\ Timed # {}
  /\ remaining' = [t \in Threads |->
                     IF t \in Timed THEN remaining[t] - 1 ELSE remaining[t]]
  /\ last' = NoReturn
  /\ UNCHANGED <<queueVars, histVars, pc, arg, out, nextVal, calls>>

\* steps a thread takes once it is inside an operation and runnable
Continue(t) ==
  \/ try_push_notify(t)
  \/ push_woken(t)
  \/ push_notify(t)
  \/ try_pop_notify(t)
  \/ pop_woken(t)
  \/ pop_notify(t)
  \/ popt_woken(t)
  \/ popt_notify(t)
  \/ popt_timeout(t)
  \/ close_notify_pop(t)
  \/ close_notify_push(t)

Next ==
  \/ \E t \in Threads : try_push(t)
  \/ \E t \in Threads : try_push_notify(t)
  \/ \E t \in Threads : push(t)
  \/ \E t \in Threads : push_woken(t)
  \/ \E t \in Threads : push_notify(t)
  \/ \E t \in Threads : try_pop(t)
  \/ \E t \in Threads : try_pop_notify(t)
  \/ \E t \in Threads : pop(t)
  \/ \E t \in Threads : pop_woken(t)
  \/ \E t \in Threads : pop_notify(t)
  \/ \E t \in Threads : pop_timeout(t)
  \/ \E t \in Threads : popt_woken(t)
  \/ \E t \in Threads : popt_notify(t)
  \/ \E t \in Threads : popt_timeout(t)
  \/ \E t \in Threads : close(t)
  \/ \E t \in Threads : close_notify_pop(t)
  \/ \E t \in Threads : close_notify_push(t)
  \/ \E t \in Threads : running(t)
  \/ \E t \in Threads : size(t)
  \/ \E t \in Threads : erase_if(t)
  \/ \E t \in Threads : get(t)
  \/ \E t \in Threads : SpuriousWakeup(t)
  \/ Tick

Spec == Init /\ [][Next]_vars

\* Every runnable thread inside an operation is eventually scheduled and the
\* clock reaches every remaining.  Nothing forces a thread to start a new
\* operation, and nothing forces a spurious wakeup.
FairSpec ==
  /\ Spec
  /\ \A t \in Threads : WF_vars(Continue(t))
  /\ WF_vars(Tick)

\* the same program, the constructor called with any argument it accepts
AnyCapSpec == InitAny /\ [][Next]_vars

\* the program used through push, try_push, pop and try_pop only: nobody
\* closes the queue, no deadline is involved, get and erase_if are not called
CoreNext ==
  \/ \E t \in Threads : try_push(t)
  \/ \E t \in Threads : try_push_notify(t)
  \/ \E t \in Threads : push(t)
  \/ \E t \in Threads : push_woken(t)
  \/ \E t \in Threads : push_notify(t)
  \/ \E t \in Threads : try_pop(t)
  \/ \E t \in Threads : try_pop_notify(t)
  \/ \E t \in Threads : pop(t)
  \/ \E t \in Threads : pop_woken(t)
  \/ \E t \in Threads : pop_notify(t)
  \/ \E t \in Threads : SpuriousWakeup(t)

CoreSpec == Init /\ [][CoreNext]_vars

\* ---- properties ---------------------------------------------------------
PushEntryStates == {"push_wait", "push_notify", "try_push_notify"}
PopNotifyStates == {"pop_notify", "popt_notify", "try_pop_notify"}
ConsumerOps == {"pop", "pop_timeout", "try_pop", "get"}
ConsumerStates ==
  {"pop_wait", "pop_woken", "popt_wait", "popt_woken"} \cup PopNotifyStates

\* a and b both occur in s, a at a smaller index than b
Before(s, a, b) ==
  \E i \in 1..Len(s) : \E j \in 1..Len(s) : i < j /\ s[i] = a /\ s[j] = b

\* C1: in every reachable state of a queue built with capacity >= 1 the length
\* of storage lies between 0 and the capacity, whatever the interleaving and
\* with spurious wakeups allowed.
C1_SizeWithinCapacity == Len(storage) >= 0 /\ Len(storage) <= max_size

\* a producer that was woken finds the queue still full and open
C1_Witness ==
  /\ is_valid
  /\ Len(storage) = max_size
  /\ \E t \in Threads : pc[t] = "push_woken"

\* C2: two elements removed by pop, try_pop or pop(timeout) are removed in the
\* order in which they were appended.
C2_Fifo ==
  \A i \in 1..Len(delivered) : \A j \in 1..Len(delivered) :
    i < j => Before(pushed, delivered[i], delivered[j])

\* two consumers have each removed an element and are about to return
C2_Witness ==
  /\ Len(delivered) >= 2
  /\ \E t \in Threads : \E u \in Threads :
       t # u /\ pc[t] \in PopNotifyStates /\ pc[u] \in PopNotifyStates

\* C3: the elements appended by push / try_push are exactly the elements in
\* storage, those removed by pop / try_pop / pop(timeout), those removed by
\* get and those removed by erase_if, each counted once (the append and the
\* removal under the mutex are what decides the later Ok).
C3_Conservation ==
  /\ Cardinality(Range(pushed)) = Len(pushed)
  /\ Range(pushed) = Range(storage) \cup Range(delivered) \cup got \cup erased
  /\ Len(pushed) =
       Len(storage) + Len(delivered) + Cardinality(got) + Cardinality(erased)

\* two elements were appended; get has taken one of them and a pop the other
C3_Witness ==
  /\ Len(pushed) = 2
  /\ got # {}
  /\ delivered # <<>>

\* C5: once the queue is closed nothing is appended; a push or try_push that
\* runs its locked block on a closed queue, first or after a wait, returns
\* Destroyed and leaves storage alone.
C5_NoAppendAfterClose ==
  [][~is_valid =>
       /\ pushed' = pushed
       /\ Len(storage') <= Len(storage)
       /\ \A t \in Threads :
            pc[t] \in {"idle", "push_woken"} => pc'[t] \notin PushEntryStates
       /\ \A t \in Threads :
            pc[t] = "push_woken" /\ pc'[t] # pc[t]
            => /\ pc'[t] = "idle"
               /\ last' = [op |-> "push", ret |-> "Destroyed", out |-> NoVal, pred |-> {}]
               /\ storage' = storage
       /\ nextVal' # nextVal
            => /\ pc' = pc
               /\ last'.op \in {"push", "try_push"}
               /\ last'.ret = "Destroyed"
               /\ storage' = storage]_vars

\* the queue is closed, a push that waited on the full queue has been woken,
\* and a slot has been freed in the meantime
C5_Witness ==
  /\ ~is_valid
  /\ Len(storage) < max_size
  /\ \E t \in Threads : pc[t] = "push_woken"

\* C7: on a closed queue pop, pop(timeout), try_pop and get return Destroyed
\* and leave storage unchanged, also when storage is not empty; nothing is
\* delivered to a consumer once the queue is closed.
C7_NoPopAfterClose ==
  [][~is_valid =>
       /\ delivered' = delivered
       /\ got' = got
       /\ \A t \in Threads :
            pc[t] = "idle" => pc'[t] \notin ConsumerStates
       /\ calls' # calls /\ last'.op \in ConsumerOps
            => /\ last'.ret = "Destroyed"
               /\ storage' = storage]_vars

\* a consumer operation has returned Destroyed on a closed queue that still
\* holds an element
C7_Witness ==
  /\ ~is_valid
  /\ storage # <<>>
  /\ last.op \in ConsumerOps
  /\ last.ret = "Destroyed"

\* C6 (as claimed): pop() on a closed queue whose storage is not empty
\* returns OK with the head and removes it; pop() returns Destroyed only when
\* the queue is closed and storage is empty.
C6_DrainAfterClose ==
  [][/\ /\ ~is_valid
        /\ storage # <<>>
        /\ \/ calls' # calls /\ last'.op = "pop"
           \/ \E t \in Threads :
                pc[t] = "idle" /\ pc'[t] \in {"pop_wait", "pop_notify"}
        => /\ \E t \in Threads :
                /\ pc[t] = "idle"
                /\ pc'[t] = "pop_notify"
                /\ out'[t] = Head(storage)
           /\ storage' = Tail(storage)
     /\ last'.op = "pop" /\ last'.ret = "Destroyed"
        => ~is_valid /\ storage = <<>>]_vars

WaitStates == {"push_wait", "pop_wait", "popt_wait"}
Suspended == {t \in Threads : pc[t] \in WaitStates}

\* C4: every thread that is suspended in push, pop or pop(timeout) when the
\* queue is closed eventually returns from its operation.
C4_CloseUnblocksAll ==
  \A t \in Threads : (~is_valid /\ pc[t] \in WaitStates) ~> (pc[t] = "idle")

\* the queue has been closed while two threads are suspended
C4_Witness ==
  /\ ~is_valid
  /\ Cardinality(Suspended) >= 2

\* a consumer has removed an element and has not yet notified
PopCompleted == \E c \in Threads : pc[c] \in PopNotifyStates

\* C10 (as claimed): once a producer is suspended in push on a full open queue
\* and a consumer completes a successful pop, one of the suspended producers
\* eventually appends, unless the queue is closed.
C10_BlockedPushAppends ==
  \A W \in (SUBSET Threads) \ {{}} :
    (is_valid /\ WaitersNotFull = W /\ PopCompleted /\ ~IsFull(storage, max_size))
      ~> (~is_valid \/ \E u \in W : pc[u] = "push_notify")

\* C10 (amended): ... eventually the queue is closed, or an element is
\* appended: by a suspended producer unless another push or try_push takes
\* the freed slot first.
C10_SlotIsRefilled ==
  \A n \in 0..MaxVal :
    (/\ is_valid /\ WaitersNotFull # {} /\ PopCompleted
     /\ ~IsFull(storage, max_size) /\ Len(pushed) = n)
      ~> (~is_valid \/ Len(pushed) > n)

\* capacity 2 held [1,2], push 3 was suspended, a pop has returned 1 and the
\* producer has been woken with a free slot in front of it
C10_Witness ==
  /\ is_valid
  /\ max_size = 2
  /\ storage = <<2>>
  /\ delivered = <<1>>
  /\ last = [op |-> "pop", ret |-> "OK", out |-> 1, pred |-> {}]
  /\ \E t \in Threads : pc[t] = "push_woken" /\ arg[t] = 3

\* C8 (as claimed): when get returns OK while a producer is suspended on the
\* open queue, a producer is woken, so that an element is eventually appended
\* unless the queue is closed.  Behaviours in which the threads go on to use
\* up MaxCalls are left out, so a violation is a run that stops by itself.
C8_GetWakesProducer ==
  \A n \in 0..MaxVal :
    (/\ is_valid /\ WaitersNotFull # {} /\ ~IsFull(storage, max_size)
     /\ last.op = "get" /\ last.ret = "OK" /\ Len(pushed) = n)
      ~> (~is_valid \/ Len(pushed) > n \/ calls = MaxCalls)

\* C9 (as claimed): when erase_if has removed elements while producers are
\* suspended on the open queue, producers are woken, so that an element is
\* eventually appended unless the queue is closed.  Behaviours in which the
\* threads go on to use up MaxCalls are left out, as for C8.
C9_EraseIfWakesProducers ==
  \A n \in 0..MaxVal :
    (/\ is_valid /\ WaitersNotFull # {} /\ ~IsFull(storage, max_size)
     /\ last.op = "erase_if" /\ erased # {} /\ Len(pushed) = n)
      ~> (~is_valid \/ Len(pushed) > n \/ calls = MaxCalls)

\* a push or try_push has just returned OK
PushReturnedOk == last.op \in {"push", "try_push"} /\ last.ret = "OK"

\* C11 (as claimed): when a push or try_push returns OK while a consumer is
\* inside pop() on the open queue, suspended or just notified, some consumer
\* eventually removes an element, whatever mix of pop() and pop(timeout)
\* waiters shares the queue.  Left out: the queue is closed, the element is
\* removed by get or erase_if, or the threads go on to use up MaxCalls (so a
\* violation is a run that stops by itself).
C11_ConsumersProgress ==
  \A n \in 0..MaxVal :
    (/\ is_valid /\ PushReturnedOk /\ storage # <<>>
     /\ \E t \in Threads : pc[t] \in {"pop_wait", "pop_woken"}
     /\ Len(delivered) = n)
      ~> (\/ ~is_valid
          \/ Len(delivered) > n
          \/ storage = <<>>
          \/ calls = MaxCalls)

\* C12 (as claimed): whenever pop(timeout) returns Timeouted, storage is empty
\* at the moment, under the mutex, at which it decides to return.
C12_TimeoutOnlyWhenEmpty ==
  [][last'.op = "pop_timeout" /\ last'.ret = "Timeouted" => storage = <<>>]_vars

PoptStates == {"popt_wait", "popt_woken"}

\* C13: a pop(timeout) never blocks for ever: a thread inside its wait
\* eventually returns.  The deadline is fixed at entry: while the thread stays
\* inside the wait loop its remaining time never grows, a re-wait keeps the
\* deadline it had, and a waiter that leaves the loop with storage empty and
\* the queue open returns Timeouted.
C13_TimeoutIsPrompt ==
  /\ [][\A t \in Threads :
          /\ pc[t] \in PoptStates /\ pc'[t] \in PoptStates
               => remaining'[t] <= remaining[t]
          /\ pc[t] = "popt_woken" /\ pc'[t] = "popt_wait"
               => remaining'[t] = remaining[t] /\ storage = <<>> /\ is_valid
          /\ pc[t] = "popt_woken" /\ pc'[t] = "idle" /\ storage = <<>> /\ is_valid
               => last' = [op |-> "pop_timeout", ret |-> "Timeouted",
                           out |-> NoVal, pred |-> {}]]_vars
  /\ \A t \in Threads : (pc[t] \in PoptStates) ~> (pc[t] = "idle")

\* a pop(timeout) has returned Timeouted on the open empty queue
C13_Witness ==
  /\ is_valid
  /\ storage = <<>>
  /\ last.op = "pop_timeout"
  /\ last.ret = "Timeouted"

\* a push or try_push starts and the caller is not seen entering push (it
\* neither parks on the full queue nor appends as push does)
TryPushCall ==
  /\ nextVal' # nextVal
  /\ \A t \in Threads :
       pc[t] = "idle" => pc'[t] \notin {"push_wait", "push_notify"}

\* C14: try_push on an open queue whose storage holds max_size elements
\* returns Full in the same step (it does not block), leaves storage, the
\* open flag and the capacity as they are, appends nothing, and changes the
\* position of no thread: no waiter is woken.
C14_TryPushFull ==
  [][is_valid /\ Len(storage) = max_size /\ TryPushCall =>
       /\ last' = [op |-> "try_push", ret |-> "Full", out |-> NoVal, pred |-> {}]
       /\ pc' = pc
       /\ storage' = storage
       /\ pushed' = pushed
       /\ is_valid' = is_valid
       /\ max_size' = max_size]_vars

\* try_push has returned Full on the open full queue while a consumer is
\* still parked on _c_pop_blocking_on
C14_Witness ==
  /\ is_valid
  /\ Len(storage) = max_size
  /\ last.op = "try_push"
  /\ last.ret = "Full"
  /\ WaitersNotEmpty # {}

\* C15: try_pop on an open queue with empty storage returns Empty in the
\* same step (it does not block and takes nothing), leaves storage and the
\* open flag as they are, and changes the position of no thread: no producer
\* is woken.
C15_TryPopEmpty ==
  [][is_valid /\ storage = <<>> =>
       /\ \A t \in Threads : pc[t] = "idle" => pc'[t] # "try_pop_notify"
       /\ calls' # calls /\ last'.op = "try_pop"
            => /\ last' = [op |-> "try_pop", ret |-> "Empty",
                           out |-> NoVal, pred |-> {}]
               /\ pc' = pc
               /\ storage' = storage
               /\ delivered' = delivered
               /\ is_valid' = is_valid]_vars

\* try_pop has returned Empty on the open empty queue while a producer is
\* still parked on _c_push_blockin_on
C15_Witness ==
  /\ is_valid
  /\ storage = <<>>
  /\ last.op = "try_pop"
  /\ last.ret = "Empty"
  /\ WaitersNotFull # {}

\* positions of storage whose element is accepted by P
Matches(P) == {i \in 1..Len(storage) : storage[i] \in P}

\* C16: get on an open queue removes and returns the element accepted by the
\* predicate that is nearest to the head; storage afterwards is the previous
\* storage without that one element, the others in their previous order (one
\* element shorter).  When no element is accepted get returns NotFound and
\* storage is unchanged.
C16_GetFirstMatch ==
  [][is_valid /\ calls' # calls /\ last'.op = "get" =>
       IF Matches(last'.pred) = {} THEN
         /\ last'.ret = "NotFound"
         /\ last'.out = NoVal
         /\ storage' = storage
       ELSE
         LET i == CHOOSE m \in Matches(last'.pred) :
                    \A k \in Matches(last'.pred) : m <= k
         IN /\ last'.ret = "OK"
            /\ last'.out = storage[i]
            /\ Len(storage') = Len(storage) - 1
            /\ \A k \in 1..Len(storage') :
                 storage'[k] = IF k < i THEN storage[k] ELSE storage[k + 1]]_vars

\* get has returned an element while a later element accepted by the same
\* predicate stays in storage
C16_Witness ==
  /\ is_valid
  /\ last.op = "get"
  /\ last.ret = "OK"
  /\ Matches(last.pred) # {}

CloseStates == {"close_notify_pop", "close_notify_push"}

\* C17: the open flag starts true, is false once a close has run its locked
\* block, and is never true again after it was false; running() returns the
\* flag, so it returns false in every state after close; a close on a closed
\* queue, and the broadcasts of any close, leave storage and the flag alone.
C17_OpenFlagMonotone ==
  /\ [](calls = 0 => is_valid)
  /\ [][/\ ~is_valid => ~is_valid'
        /\ \A t \in Threads :
             /\ pc[t] = "idle" /\ pc'[t] = "close_notify_pop"
                  => ~is_valid' /\ storage' = storage
             /\ pc[t] \in CloseStates /\ pc'[t] # pc[t]
                  => is_valid' = is_valid /\ storage' = storage
        /\ last'.op = "running"
             => /\ last'.ret = IF is_valid THEN "True" ELSE "False"
                /\ is_valid' = is_valid
                /\ storage' = storage]_vars

\* two calls of close are in progress on a queue that still holds an element:
\* one has run its locked block on the queue the other had already closed
C17_Witness ==
  /\ ~is_valid
  /\ storage # <<>>
  /\ \E t \in Threads : \E u \in Threads :
       t # u /\ pc[t] \in CloseStates /\ pc[u] \in CloseStates

\* C18 (as claimed): a queue with capacity below 1 is rejected at
\* construction, so no operation ever runs on a queue whose capacity is
\* below 1.
C18_CapacityAtLeastOne == calls > 0 => max_size >= 1

\* no thread is runnable and no notification is pending: every thread is
\* outside any operation or parked on a condition variable
Quiescent == \A t \in Threads : pc[t] \in {"idle", "push_wait", "pop_wait"}

\* a parked thread whose condition holds: a producer with a free slot in
\* front of it, or a consumer with an element in front of it
MissedWaiter ==
  \/ \E t \in Threads : pc[t] = "push_wait" /\ Len(storage) < max_size
  \/ \E t \in Threads : pc[t] = "pop_wait" /\ Len(storage) > 0

\* C19: with push, try_push, pop and try_pop only, on an open queue of
\* capacity >= 1, no reachable state is stuck: whenever a producer is parked
\* with a free slot or a consumer is parked with an element present, some
\* thread is runnable or about to notify.
C19_NoLostWakeup == ~(Quiescent /\ MissedWaiter)

\* a producer is still parked although a slot is free and a consumer is
\* still parked although an element is present: both wakeups are on their way
C19_Witness ==
  /\ is_valid
  /\ \E t \in Threads : pc[t] = "pop_wait" /\ Len(storage) > 0
  /\ \E t \in Threads : pc[t] \in {"push_notify", "try_push_notify"}

\* C20: erase_if removes every element accepted by the predicate and nothing
\* else: storage afterwards is the subsequence of the previous storage made of
\* the elements the predicate rejects, in their previous order; this is so on
\* an open and on a closed queue, and the open flag is left as it was.
C20_EraseIfExact ==
  [][calls' # calls /\ last'.op = "erase_if" =>
       LET Rejected(x) == x \notin last'.pred
       IN /\ storage' = SelectSeq(storage, Rejected)
          /\ is_valid' = is_valid]_vars

\* erase_if has run on a closed queue, has removed an element and has left
\* another
C20_Witness ==
  /\ ~is_valid
  /\ last.op = "erase_if"
  /\ last.pred \cap erased # {}
  /\ storage # <<>>

====
